---------------------------- MODULE Spec2Model ----------------------------
(***************************************************************************)
(* A model of the multithreaded static-file web server:                    *)
(*   src/src/req_res.rs   Request::parse, Response::get_page, response     *)
(*   src/src/bin/main.rs  main (accept loop + thread pool),                *)
(*                        handle_connection                                *)
(*   src/tests/it_works.rs  the sequential client of it_works_in_parallel  *)
(*                                                                         *)
(* Text is a sequence of one-character strings.  Three tokens stand for    *)
(* characters that have no TLA+ literal: "NUL" is U+0000, "U+00E9" is a    *)
(* two-byte character and "U+FFFD" the replacement character; "0xFF" is a  *)
(* byte that is not valid UTF-8.                                           *)
(***************************************************************************)
EXTENDS Integers, Sequences, FiniteSets, TLC

VARIABLES
    \* ---- library functions applied to one input (LibSpec)
    buffer,       \* the request bytes handed to Request::new / Response::new
    pc,           \* "new" -> "parsed" -> "responded"
    parsed,       \* outcome of Request::parse on buffer
    page,         \* outcome of Response::get_page on buffer
    \* ---- the filesystem, shared by both parts
    fs,           \* path -> bytes of each file that exists
    \* ---- the server process (Spec, SeqSpec)
    cpus,         \* num_cpus::get()
    mainpc,       \* "start" | "accepting" | "panicked"
    num_of_cpus,  \* main's local of that name: the pool size
    threads,      \* thread id -> "unborn" | "idle" | "busy" | "dead"
    job,          \* thread id -> connection it is handling (0: none)
    queue,        \* the pool's job channel: connections not yet taken
    conn,         \* connection id -> its record; buf holds the bytes the read
                  \* stored, the rest of the 1024-byte buffer being zero
    used,         \* thread ids that have executed at least one job
    sent          \* requests the sequential client has sent so far

libvars == <<buffer, pc, parsed, page>>
srvvars == <<cpus, mainpc, num_of_cpus, threads, job, queue, conn, used, sent>>
vars == <<buffer, pc, parsed, page, fs,
          cpus, mainpc, num_of_cpus, threads, job, queue, conn, used, sent>>

-----------------------------------------------------------------------------
(* Bounds of the model.                                                     *)

MaxLines == 3      \* lines after the request line in a drawn buffer
MaxCpus == 4       \* largest num_cpus::get() drawn
MaxConns == 2      \* connections the clients open
MaxRespawns == 1   \* worker threads the pool may start to replace dead ones

-----------------------------------------------------------------------------
(* Text helpers: the std::str operations the code calls.                    *)

Whitespace == {" ", "\t", "\n", "\r"}

Min(S) == CHOOSE x \in S : \A y \in S : x <= y
Max(S) == CHOOSE x \in S : \A y \in S : x >= y

\* String::from_utf8_lossy: an invalid byte becomes U+FFFD, the rest is kept.
from_utf8_lossy(bytes) ==
    [i \in 1..Len(bytes) |-> IF bytes[i] = "0xFF" THEN "U+FFFD" ELSE bytes[i]]

\* str::len of a String: its length in UTF-8 bytes.
Utf8Width(c) == IF c = "U+00E9" THEN 2 ELSE IF c = "U+FFFD" THEN 3 ELSE 1

RECURSIVE ByteLenFrom(_, _)
ByteLenFrom(s, i) ==
    IF i > Len(s) THEN 0 ELSE Utf8Width(s[i]) + ByteLenFrom(s, i + 1)

ByteLen(s) == ByteLenFrom(s, 1)

\* The end of the k-th piece of a split at the positions idx of a text of
\* length n: the k-th position, or n + 1 after the last.
CutAt(idx, k, n) ==
    IF k = 0 THEN 0
    ELSE IF k = Cardinality(idx) + 1 THEN n + 1
    ELSE CHOOSE i \in idx : Cardinality({j \in idx : j < i}) = k - 1

SplitAt(s, idx) ==
    [k \in 1..(Cardinality(idx) + 1) |->
        SubSeq(s, CutAt(idx, k - 1, Len(s)) + 1, CutAt(idx, k, Len(s)) - 1)]

\* str::split(c) for a one-character pattern: always at least one piece.
Split(s, c) == SplitAt(s, {i \in 1..Len(s) : s[i] = c})

StripCr(l) ==
    IF Len(l) > 0 /\ l[Len(l)] = "\r" THEN SubSeq(l, 1, Len(l) - 1) ELSE l

LinesOf(pieces) ==
    IF pieces[Len(pieces)] = <<>>
    THEN [k \in 1..(Len(pieces) - 1) |-> StripCr(pieces[k])]
    ELSE [k \in 1..Len(pieces) |->
             IF k < Len(pieces) THEN StripCr(pieces[k]) ELSE pieces[k]]

\* str::lines: pieces ended by "\n" (a "\r" right before it goes too); what
\* follows the last "\n" is a line only when it is not empty.
Lines(s) == LinesOf(Split(s, "\n"))

LeadingWs(s) == Cardinality({i \in 1..Len(s) : \A j \in 1..i : s[j] \in Whitespace})

TrailingWs(s) ==
    Cardinality({i \in 1..Len(s) : \A j \in i..Len(s) : s[j] \in Whitespace})

\* str::trim
Trim(s) ==
    IF LeadingWs(s) = Len(s) THEN <<>>
    ELSE SubSeq(s, LeadingWs(s) + 1, Len(s) - TrailingWs(s))

StartsAt(s, pat, i) ==
    /\ i + Len(pat) - 1 <= Len(s)
    /\ \A k \in 1..Len(pat) : s[i + k - 1] = pat[k]

\* str::contains
Contains(s, pat) == \E i \in 1..(Len(s) + 1) : StartsAt(s, pat, i)

\* str::replace(from, to): the non-overlapping matches, left to right.
RECURSIVE ReplaceFrom(_, _, _, _)
ReplaceFrom(s, from, to, i) ==
    IF \E j \in i..Len(s) : StartsAt(s, from, j)
    THEN SubSeq(s, i, Min({j \in i..Len(s) : StartsAt(s, from, j)}) - 1) \o to
         \o ReplaceFrom(s, from, to,
                Min({j \in i..Len(s) : StartsAt(s, from, j)}) + Len(from))
    ELSE SubSeq(s, i, Len(s))

Replace(s, from, to) ==
    IF Len(from) = 1 /\ to = <<>>
    THEN SelectSeq(s, LAMBDA c : c # from[1])
    ELSE ReplaceFrom(s, from, to, 1)

Digits == <<"0", "1", "2", "3", "4", "5", "6", "7", "8", "9">>

IsDigit(c) == \E d \in 1..10 : Digits[d] = c

DigitVal(c) == (CHOOSE d \in 1..10 : Digits[d] = c) - 1

\* Display for an integer ("{}" in format!).
RECURSIVE NatToString(_)
NatToString(n) ==
    IF n < 10 THEN <<Digits[n + 1]>>
    ELSE NatToString(n \div 10) \o <<Digits[(n % 10) + 1]>>

IntToString(n) == IF n < 0 THEN <<"-">> \o NatToString(-n) ELSE NatToString(n)

RECURSIVE DigitsValue(_)
DigitsValue(s) ==
    IF s = <<>> THEN 0
    ELSE 10 * DigitsValue(SubSeq(s, 1, Len(s) - 1)) + DigitVal(s[Len(s)])

AllDigits(s) == \A i \in 1..Len(s) : IsDigit(s[i])

Lower(c) ==
    CASE c = "I" -> "i" [] c = "N" -> "n" [] c = "F" -> "f" [] c = "A" -> "a"
      [] c = "T" -> "t" [] c = "Y" -> "y" [] c = "E" -> "e" [] OTHER -> c

(* <f64 as FromStr>::from_str.  The text accepted is                        *)
(*    Sign? ('inf' | 'infinity' | 'nan' | Number)                           *)
(*    Number = (Digit+ | Digit+ '.' Digit* | Digit* '.' Digit+) Exp?        *)
(*    Exp = 'e' Sign? Digit+                                                *)
(* with letters in either case.  A Number's value is kept as mant * 10^exp; *)
(* the rounding to the nearest f64 is not modelled.                         *)
F64Err == [ok |-> FALSE, kind |-> "err", neg |-> FALSE, mant |-> 0, exp |-> 0]

F64Digits(int, frac, exp, neg) ==
    IF AllDigits(int) /\ AllDigits(frac) /\ Len(int) + Len(frac) > 0
    THEN [ok |-> TRUE, kind |-> "num", neg |-> neg,
          mant |-> DigitsValue(int \o frac), exp |-> exp - Len(frac)]
    ELSE F64Err

F64Decimal(p, exp, neg) ==
    IF Len(p) > 2 \/ ~exp.ok THEN F64Err
    ELSE F64Digits(p[1], IF Len(p) = 2 THEN p[2] ELSE <<>>, exp.val, neg)

F64ExpDigits(d, neg) ==
    IF Len(d) > 0 /\ AllDigits(d)
    THEN [ok |-> TRUE, val |-> IF neg THEN 0 - DigitsValue(d) ELSE DigitsValue(d)]
    ELSE [ok |-> FALSE, val |-> 0]

F64Exp(e) ==
    IF Len(e) > 0 /\ e[1] \in {"+", "-"}
    THEN F64ExpDigits(Tail(e), e[1] = "-")
    ELSE F64ExpDigits(e, FALSE)

F64Number(pieces, neg) ==
    IF Len(pieces) > 2 THEN F64Err
    ELSE F64Decimal(Split(pieces[1], "."),
                    IF Len(pieces) = 2 THEN F64Exp(pieces[2])
                    ELSE [ok |-> TRUE, val |-> 0],
                    neg)

F64Unsigned(body, neg) ==
    IF body \in {<<"i","n","f">>, <<"i","n","f","i","n","i","t","y">>}
    THEN [ok |-> TRUE, kind |-> "inf", neg |-> neg, mant |-> 0, exp |-> 0]
    ELSE IF body = <<"n","a","n">>
    THEN [ok |-> TRUE, kind |-> "nan", neg |-> neg, mant |-> 0, exp |-> 0]
    ELSE F64Number(Split(body, "e"), neg)

F64Signed(s) ==
    IF Len(s) > 0 /\ s[1] \in {"+", "-"}
    THEN F64Unsigned(Tail(s), s[1] = "-")
    ELSE F64Unsigned(s, FALSE)

ParseF64(tok) == F64Signed([i \in 1..Len(tok) |-> Lower(tok[i])])

-----------------------------------------------------------------------------
(* IndexMap<String, String>: entries in insertion order, keys unique.       *)

\* IndexMap::insert: a present key keeps its place and takes the new value.
IndexMapInsert(m, k, v) ==
    IF \E i \in 1..Len(m) : m[i][1] = k
    THEN [i \in 1..Len(m) |-> IF m[i][1] = k THEN <<k, v>> ELSE m[i]]
    ELSE Append(m, <<k, v>>)

-----------------------------------------------------------------------------
(* src/src/req_res.rs                                                       *)

\* Option<ParsedRequest>, or the panic that unwinds out of parse.
NoneRequest ==
    [tag |-> "None", method |-> <<>>, uri |-> <<>>, http_version |-> <<>>,
     headers |-> <<>>, body |-> <<>>]

PanicRequest ==
    [tag |-> "panic", method |-> <<>>, uri |-> <<>>, http_version |-> <<>>,
     headers |-> <<>>, body |-> <<>>]

NotRun == [tag |-> "notrun", text |-> <<>>, reads |-> <<>>]

\* A loop that would keep the line after the first blank line only.
BodyAfterFirstBlankOnly(lines, idx, body) ==
    IF lines[idx] = <<>> /\ ~(\E j \in 1..(idx - 1) : lines[j] = <<>>)
    THEN Replace(Trim(lines[idx + 1]), <<"NUL">>, <<>>)
    ELSE body

\* The `if i.is_empty()` statement of the loop, for the line at idx (1-based):
\* the body after it.  Called only when lines[idx + 1] exists.
BodyAfter(lines, idx, body) ==
    IF lines[idx] = <<>>
    THEN Replace(Trim(lines[idx + 1]), <<"NUL">>, <<>>)
    ELSE body

\* The header statements of the loop: split on every ':', trim each part,
\* insert parts 0 and 1 when there are at least two parts.
InsertPair(pair, headers) ==
    IF Len(pair) >= 2 THEN IndexMapInsert(headers, Trim(pair[1]), Trim(pair[2]))
    ELSE headers

HeadersAfter(line, headers) == InsertPair(Split(line, ":"), headers)

\* for (idx, &i) in lines.iter().enumerate() { ... }: [panic, headers, body]
RECURSIVE ParseLoop(_, _, _, _)
ParseLoop(lines, idx, headers, body) ==
    IF idx > Len(lines) THEN [panic |-> FALSE, headers |-> headers, body |-> body]
    ELSE IF lines[idx] = <<>> /\ idx + 1 > Len(lines)
    THEN [panic |-> TRUE, headers |-> headers, body |-> body]
    ELSE ParseLoop(lines, idx + 1, HeadersAfter(lines[idx], headers),
                   BodyAfter(lines, idx, body))

\* The end of parse: the loop's panic, or Some(ParsedRequest { .. }).
ParsedWith(parts, version, loop) ==
    IF loop.panic THEN PanicRequest                 \* lines[idx + 1]
    ELSE [tag |-> "Some", method |-> parts[1], uri |-> parts[2],
          http_version |-> version, headers |-> loop.headers,
          body |-> loop.body]

\* parse from `.parse().expect(..)` on: rest is lines after lines.remove(0).
ParseVersion(parts, version, rest) ==
    IF ~version.ok THEN PanicRequest                \* .expect(...)
    ELSE ParsedWith(parts, version, ParseLoop(rest, 1, <<>>, <<>>))

\* parse from the three parts.next()? on.
ParseParts(parts, rest) ==
    IF Len(parts) < 3 THEN NoneRequest              \* parts.next()?
    ELSE ParseVersion(parts, ParseF64(Replace(parts[3], <<"H","T","T","P","/">>, <<>>)), rest)

\* parse from lines[0] on.
ParseLines(lines) ==
    IF Len(lines) = 0 THEN PanicRequest             \* lines[0]
    ELSE ParseParts(Split(lines[1], " "), Tail(lines))

\* Request::parse
parse(buf) == ParseLines(Lines(from_utf8_lossy(buf)))

\* A format string with one CRLF between the header block and the body.
response_one_crlf(status, desc, headers, body) ==
    <<"H","T","T","P","/","1",".","1"," ">> \o IntToString(status) \o <<" ">> \o desc \o <<"\r","\n">>
        \o headers \o <<"\r","\n">> \o body

\* response(): "HTTP/1.1 {} {}\r\n{}\r\n\r\n{}"
response(status, desc, headers, body) ==
    <<"H","T","T","P","/","1",".","1"," ">> \o IntToString(status) \o <<" ">> \o desc \o <<"\r","\n">>
        \o headers \o <<"\r","\n","\r","\n">> \o body

\* fs::read_to_string: Err when the file is missing or is not valid UTF-8.
read_to_string(files, path) ==
    IF path \in DOMAIN files /\ \A i \in 1..Len(files[path]) : files[path][i] # "0xFF"
    THEN [ok |-> TRUE, val |-> files[path]]
    ELSE [ok |-> FALSE, val |-> <<>>]

NotFoundPath == <<"f","r","o","n","t","e","n","d","/","4","0","4",".","h","t","m","l">>

\* The page_path expression of get_page.
page_path(uri) ==
    IF uri = <<"/">> THEN <<"f","r","o","n","t","e","n","d","/","i","n","d","e","x",".","h","t","m","l">>
    ELSE <<"f","r","o","n","t","e","n","d">> \o uri
         \o (IF Contains(uri, <<".","h","t","m","l">>) THEN <<>> ELSE <<".","h","t","m","l">>)

\* A length counted in characters instead of bytes.
content_length_chars(content) == <<"C","o","n","t","e","n","t","-","L","e","n","g","t","h",":"," ">> \o IntToString(Len(content))

\* The headers argument of the 200 response:
\* format!("Content-Length: {}", content.len())
content_length(content) == <<"C","o","n","t","e","n","t","-","L","e","n","g","t","h",":"," ">> \o IntToString(ByteLen(content))

\* get_page from fs::read_to_string(page_path) on: the content read, or the
\* not-found document, or the panic of the second unwrap.
PageOf(path, first, fallback) ==
    IF first.ok
    THEN [tag |-> "ok", reads |-> <<path>>,
          text |-> response(200, <<"O","K">>, content_length(first.val), first.val)]
    ELSE IF fallback.ok
    THEN [tag |-> "ok", reads |-> <<path, NotFoundPath>>,
          text |-> response(200, <<"O","K">>, content_length(fallback.val),
                            fallback.val)]
    ELSE [tag |-> "panic", text |-> <<>>, reads |-> <<path, NotFoundPath>>]

\* get_page from the match on the parsed request on.
PageFor(req, files) ==
    IF req.tag = "panic" THEN [tag |-> "panic", text |-> <<>>, reads |-> <<>>]
    ELSE IF req.tag = "None"
    THEN [tag |-> "ok", reads |-> <<>>,
          text |-> response(400, <<"B","a","d"," ","a","s","s"," ","R","e","q","u","e","s","t">>, <<>>, <<>>)]
    ELSE PageOf(page_path(req.uri),
                read_to_string(files, page_path(req.uri)),
                read_to_string(files, NotFoundPath))

\* Response::get_page: the String returned (tag "ok") or a panic, and the
\* paths it handed to fs::read_to_string, in order.
get_page(buf, files) == PageFor(parse(buf), files)

-----------------------------------------------------------------------------
(* The inputs drawn for the library functions.                              *)

RequestLines ==
    { <<>>,
      <<"G","E","T">>,
      <<"G","E","T"," ","/">>,
      <<"G","E","T"," ","/"," ","H","T","T","P","/","1",".","1">>,
      <<"G","E","T"," ","/","a","b","o","u","t"," ","H","T","T","P","/","1",".","1">>,
      <<"G","E","T"," ","/","a","b","o","u","t",".","h","t","m","l"," ","H","T","T","P","/","1",".","0">>,
      <<"P","O","S","T"," ","/","n","o","p","e"," ","2">>,
      <<"G","E","T"," ","/"," ","H","T","T","P","/","x">> }

HeaderLines ==
    { <<"H","o","s","t",":"," ","1","2","7",".","0",".","0",".","1",":","3","0","0","0">>,
      <<"H","o","s","t",":">>,
      <<>>,
      <<" ","A","NUL"," ">>,
      <<"B">> }

Eols == { <<"\n">>, <<"\r","\n">> }

RECURSIVE SeqsUpTo(_, _)
SeqsUpTo(S, n) ==
    IF n = 0 THEN {<<>>}
    ELSE LET shorter == SeqsUpTo(S, n - 1)
         IN shorter \cup {Append(s, x) : s \in {t \in shorter : Len(t) = n - 1}, x \in S}

RECURSIVE Join(_, _)
Join(ls, eol) ==
    IF Len(ls) = 0 THEN <<>>
    ELSE IF Len(ls) = 1 THEN ls[1]
    ELSE ls[1] \o eol \o Join(Tail(ls), eol)

Buffers ==
    {<<>>} \cup
    {Join(<<rl>> \o ls, eol) :
        rl \in RequestLines, ls \in SeqsUpTo(HeaderLines, MaxLines), eol \in Eols}

IndexDoc == <<"<","h","1",">","H","i","<","/","h","1",">">>
AboutDoc == <<"<","p",">","c","a","f","U+00E9","<","/","p",">">>
BinaryDoc == <<"<","p",">","0xFF","<","/","p",">">>
NotFoundDoc == <<"<","h","1",">","4","0","4","<","/","h","1",">">>

IndexPath == <<"f","r","o","n","t","e","n","d","/","i","n","d","e","x",".","h","t","m","l">>
AboutPath == <<"f","r","o","n","t","e","n","d","/","a","b","o","u","t",".","h","t","m","l">>

\* A document root: the index and the not-found documents present or not,
\* the about page absent, valid or not valid UTF-8.
FsWith(index, about, notfound) ==
    [p \in (IF index THEN {IndexPath} ELSE {})
           \cup (IF about # "absent" THEN {AboutPath} ELSE {})
           \cup (IF notfound THEN {NotFoundPath} ELSE {})
       |-> IF p = IndexPath THEN IndexDoc
           ELSE IF p = AboutPath
                THEN (IF about = "text" THEN AboutDoc ELSE BinaryDoc)
           ELSE NotFoundDoc]

FsConfigs ==
    { FsWith(TRUE, "text", TRUE), FsWith(TRUE, "binary", TRUE),
      FsWith(FALSE, "absent", TRUE), FsWith(TRUE, "text", FALSE) }

-----------------------------------------------------------------------------
(* The server's state when it is not running (LibSpec leaves it alone).     *)

ThreadIds == 1..(((4 * (MaxCpus)) \div 5) + MaxRespawns)
ConnIds == 1..MaxConns

NewConn ==
    [st |-> "closed", buf |-> <<>>, res |-> NotRun, takes |-> 0, by |-> 0,
     why |-> "none"]

SrvInit ==
    /\ mainpc = "start"
    /\ num_of_cpus = 0
    /\ threads = [t \in ThreadIds |-> "unborn"]
    /\ job = [t \in ThreadIds |-> 0]
    /\ queue = <<>>
    /\ conn = [c \in ConnIds |-> NewConn]
    /\ used = {}
    /\ sent = 0

-----------------------------------------------------------------------------
(* LibSpec: Request::parse and Response::get_page applied to a drawn buffer *)
(* over a drawn document root.                                              *)

LibInit ==
    /\ buffer \in Buffers
    /\ fs \in FsConfigs
    /\ pc = "new"
    /\ parsed = [NoneRequest EXCEPT !.tag = "notrun"]
    /\ page = NotRun
    /\ cpus = 1
    /\ SrvInit

\* Request::new(buffer).parse()
DoParse ==
    /\ pc = "new"
    /\ parsed' = parse(buffer)
    /\ pc' = "parsed"
    /\ UNCHANGED <<buffer, page, fs>>
    /\ UNCHANGED srvvars

\* Response::new(buffer).get_page()
DoGetPage ==
    /\ pc = "parsed"
    /\ page' = get_page(buffer, fs)
    /\ pc' = "responded"
    /\ UNCHANGED <<buffer, parsed, fs>>
    /\ UNCHANGED srvvars

LibNext == DoParse \/ DoGetPage

LibSpec == LibInit /\ [][LibNext]_vars

-----------------------------------------------------------------------------
(* Properties of the library functions, checked under LibSpec.              *)

BadRequestText == <<"H","T","T","P","/","1",".","1"," ","4","0","0"," ","B","a","d"," ","a","s","s"," ","R","e","q","u","e","s","t","\r","\n","\r","\n","\r","\n">>

\* C1: whenever Request::parse yields None for the buffer, get_page returns
\* exactly "HTTP/1.1 400 Bad ass Request\r\n\r\n\r\n" and has handed no path
\* to fs::read_to_string.
C1_MalformedGets400 ==
    (pc = "responded" /\ parsed.tag = "None")
        => /\ page.tag = "ok"
           /\ page.text = BadRequestText
           /\ page.reads = <<>>

C1_Witness ==
    /\ pc = "responded"
    /\ parsed.tag = "None"
    /\ buffer # <<>>
    /\ page.text = BadRequestText

\* The first line of the raw buffer: what precedes its first "\n", or "\r\n".
FirstLineOf(buf) ==
    LET nl == {i \in 1..Len(buf) : buf[i] = "\n"}
        cut == IF nl = {} THEN Len(buf) + 1 ELSE Min(nl)
    IN IF nl # {} /\ cut > 1 /\ buf[cut - 1] = "\r"
       THEN SubSeq(buf, 1, cut - 2) ELSE SubSeq(buf, 1, cut - 1)

SpacesIn(line) == Cardinality({i \in 1..Len(line) : line[i] = " "})

\* C2: Request::parse returns None, without panicking, for the zero-byte
\* buffer and for every buffer whose first line has fewer than 3
\* space-separated tokens.
C2_EmptyOrShortIsNone ==
    (pc # "new" /\ (buffer = <<>> \/ SpacesIn(FirstLineOf(buffer)) < 2))
        => parsed.tag = "None"

\* A header line split on its first ':' only, both parts trimmed.
FirstColonPair(line) ==
    LET cs == {i \in 1..Len(line) : line[i] = ":"}
    IN <<Trim(SubSeq(line, 1, Min(cs) - 1)),
         Trim(SubSeq(line, Min(cs) + 1, Len(line)))>>

RECURSIVE FirstColonHeaders(_, _, _)
FirstColonHeaders(lines, idx, headers) ==
    IF idx > Len(lines) THEN headers
    ELSE IF \E i \in 1..Len(lines[idx]) : lines[idx][i] = ":"
    THEN LET p == FirstColonPair(lines[idx])
         IN FirstColonHeaders(lines, idx + 1,
                IF p[1] # <<>> /\ p[2] # <<>>
                THEN IndexMapInsert(headers, p[1], p[2]) ELSE headers)
    ELSE FirstColonHeaders(lines, idx + 1, headers)

\* C3: the headers of a parsed request are its header lines split on the
\* first ':' only (the value is the whole trimmed remainder, so
\* "Host: 127.0.0.1:3000" is stored as Host -> "127.0.0.1:3000"), an entry
\* being inserted only when name and value are both non-empty.
C3_HeadersSplitOnFirstColon ==
    (pc # "new" /\ parsed.tag = "Some")
        => parsed.headers
               = FirstColonHeaders(Tail(Lines(from_utf8_lossy(buffer))), 1, <<>>)

Readable(path) ==
    path \in DOMAIN fs /\ \A i \in 1..Len(fs[path]) : fs[path][i] # "0xFF"

\* The decimal byte length of each document of the drawn document roots.
LengthDigitsOf(doc) ==
    CASE doc = IndexDoc -> <<"1","1">>
      [] doc = AboutDoc -> <<"1","2">>
      [] doc = NotFoundDoc -> <<"1","2">>

OkTextOf(doc) ==
    <<"H","T","T","P","/","1",".","1"," ","2","0","0"," ","O","K","\r","\n","C","o","n","t","e","n","t","-","L","e","n","g","t","h",":"," ">> \o LengthDigitsOf(doc)
        \o <<"\r","\n","\r","\n">> \o doc

\* The header block of a response text: what lies between the CRLF ending the
\* status line and the CRLF CRLF before the body.
HeaderBlockOf(text) ==
    LET first == Min({i \in 1..Len(text) : StartsAt(text, <<"\r","\n">>, i)})
        stop == Min({j \in (first + 2)..Len(text) : StartsAt(text, <<"\r","\n","\r","\n">>, j)})
    IN SubSeq(text, first + 2, stop - 1)

BodyOf(text) ==
    LET first == Min({i \in 1..Len(text) : StartsAt(text, <<"\r","\n">>, i)})
        stop == Min({j \in (first + 2)..Len(text) : StartsAt(text, <<"\r","\n","\r","\n">>, j)})
    IN SubSeq(text, stop + 4, Len(text))

RequestTokens(buf) == Split(FirstLineOf(buf), " ")

UnparsableVersion(buf) ==
    /\ buf # <<>>
    /\ Len(RequestTokens(buf)) >= 3
    /\ ~ParseF64(Replace(RequestTokens(buf)[3], <<"H","T","T","P","/">>, <<>>)).ok

\* C5: for a buffer whose request line has three tokens but whose version,
\* "HTTP/" removed, is not a number, Request::parse yields None and get_page
\* returns the 400 response.
C5_BadVersionIsNone ==
    /\ (pc # "new" /\ UnparsableVersion(buffer)) => parsed.tag = "None"
    /\ (pc = "responded" /\ UnparsableVersion(buffer))
            => (page.tag = "ok" /\ page.text = BadRequestText)

RestLines == Tail(Lines(from_utf8_lossy(buffer)))

BlankLines == {i \in 1..Len(RestLines) : RestLines[i] = <<>>}

CleanLine(l) == Replace(Trim(l), <<"NUL">>, <<>>)

\* C9 as amended: for a parsed request with at least one blank line after
\* the request line, body is the line right after the LAST blank line
\* (trimmed, null characters removed): each blank line replaces the body.
C9_BodyFollowsLastBlank ==
    (pc # "new" /\ parsed.tag = "Some" /\ BlankLines # {})
        => parsed.body = CleanLine(RestLines[Max(BlankLines) + 1])

C9_Witness ==
    /\ pc # "new"
    /\ parsed.tag = "Some"
    /\ Cardinality(BlankLines) >= 2
    /\ parsed.body = <<"B">>
    /\ CleanLine(RestLines[Min(BlankLines) + 1]) # <<"B">>

\* C9 as stated: body is the line right after the FIRST blank line; no later
\* line replaces it.
C9_BodyFollowsFirstBlank ==
    (pc # "new" /\ parsed.tag = "Some" /\ BlankLines # {})
        => parsed.body = CleanLine(RestLines[Min(BlankLines) + 1])

-----------------------------------------------------------------------------
(* src/src/bin/main.rs: the server process.                                 *)

BufferSize == 1024

\* (num_cpus::get() as f64 * 0.8) as usize.  The f64 nearest 0.8 lies above
\* 0.8 by less than 5e-17, so for these counts the truncated product is
\* floor(4c / 5).
WorkerCount(c) == (4 * c) \div 5

\* let mut buffer = [0; 1024]; stream.read(&mut buffer): the bytes received
\* fill the front of the zeroed buffer, what does not fit is left unread.
FillBuffer(bytes) ==
    [i \in 1..BufferSize |-> IF i <= Len(bytes) THEN bytes[i] ELSE "NUL"]

\* What the clients of the model send.
GetRoot == <<"G","E","T"," ","/"," ","H","T","T","P","/","1",".","1","\r","\n","H","o","s","t",":"," ","a","\r","\n","\r","\n">>
ShortLine == <<"G","E","T">>
BadVersion == <<"G","E","T"," ","/"," ","H","T","T","P","/","x","\r","\n","\r","\n">>

ClientRequests == {GetRoot, ShortLine, BadVersion}

ServerRoots == {FsWith(TRUE, "text", TRUE), FsWith(FALSE, "absent", TRUE)}

Unborn == {t \in ThreadIds : threads[t] = "unborn"}
Alive == {t \in ThreadIds : threads[t] \in {"idle", "busy"}}

\* main, lines 9-18: the pool is created with num_of_cpus threads;
\* ThreadPool::new panics on 0 and main ends there.
Startup ==
    /\ mainpc = "start"
    /\ num_of_cpus' = WorkerCount(cpus)
    /\ IF WorkerCount(cpus) >= 1
       THEN /\ mainpc' = "accepting"
            /\ threads' = [t \in ThreadIds |->
                              IF t <= WorkerCount(cpus) THEN "idle" ELSE "unborn"]
       ELSE /\ mainpc' = "panicked"
            /\ UNCHANGED threads
    /\ UNCHANGED <<cpus, job, queue, conn, used, sent, fs>>
    /\ UNCHANGED libvars

\* main, lines 20-26: one turn of the accept loop; pool.execute queues the
\* closure that owns the stream.
Accept(c) ==
    /\ mainpc = "accepting"
    /\ conn[c].st = "closed"
    /\ \A d \in ConnIds : d < c => conn[d].st # "closed"
    /\ conn' = [conn EXCEPT ![c].st = "queued"]
    /\ queue' = Append(queue, c)
    /\ UNCHANGED <<cpus, mainpc, num_of_cpus, threads, job, used, sent, fs>>
    /\ UNCHANGED libvars

\* A pool thread receives the next job of the channel and calls it.
Take(t) ==
    /\ threads[t] = "idle"
    /\ queue # <<>>
    /\ LET c == Head(queue)
       IN /\ conn' = [conn EXCEPT ![c].st = "taken",
                                  ![c].takes = @ + 1,
                                  ![c].by = t]
          /\ job' = [job EXCEPT ![t] = c]
    /\ queue' = Tail(queue)
    /\ threads' = [threads EXCEPT ![t] = "busy"]
    /\ used' = used \cup {t}
    /\ UNCHANGED <<cpus, mainpc, num_of_cpus, sent, fs>>
    /\ UNCHANGED libvars

\* A panic unwinding out of the job: the stream is dropped unanswered, the
\* thread ends, and the pool starts a thread in its place.
PanicIn(t, why) ==
    /\ Unborn # {}
    /\ conn' = [conn EXCEPT ![job[t]].st = "aborted", ![job[t]].why = why]
    /\ threads' = [threads EXCEPT ![t] = "dead", ![Min(Unborn)] = "idle"]
    /\ job' = [job EXCEPT ![t] = 0]

\* handle_connection, lines 30-33, the read returning Ok.
ReadOk(t, bytes) ==
    /\ threads[t] = "busy"
    /\ conn[job[t]].st = "taken"
    /\ conn' = [conn EXCEPT ![job[t]].st = "read",
                            ![job[t]].buf = SubSeq(bytes, 1, Min({Len(bytes), BufferSize}))]
    /\ UNCHANGED <<cpus, mainpc, num_of_cpus, threads, job, queue, used, sent, fs>>
    /\ UNCHANGED libvars

\* handle_connection, lines 31-33, the read returning Err: expect panics.
ReadFail(t) ==
    /\ threads[t] = "busy"
    /\ conn[job[t]].st = "taken"
    /\ PanicIn(t, "read")
    /\ UNCHANGED <<cpus, mainpc, num_of_cpus, queue, used, sent, fs>>
    /\ UNCHANGED libvars

\* The job after get_page returned res or panicked.
Resolved(t, res) ==
    IF res.tag = "panic"
    THEN PanicIn(t, "get_page")
    ELSE /\ conn' = [conn EXCEPT ![job[t]].st = "resolved", ![job[t]].res = res]
         /\ UNCHANGED <<threads, job>>

\* handle_connection, line 35.
Resolve(t) ==
    /\ threads[t] = "busy"
    /\ conn[job[t]].st = "read"
    /\ Resolved(t, get_page(FillBuffer(conn[job[t]].buf), fs))
    /\ UNCHANGED <<cpus, mainpc, num_of_cpus, queue, used, sent, fs>>
    /\ UNCHANGED libvars

\* handle_connection, lines 37-40, write_all returning Ok; the job returns
\* and the thread goes back to the channel.
WriteOk(t) ==
    /\ threads[t] = "busy"
    /\ conn[job[t]].st = "resolved"
    /\ conn' = [conn EXCEPT ![job[t]].st = "written"]
    /\ threads' = [threads EXCEPT ![t] = "idle"]
    /\ job' = [job EXCEPT ![t] = 0]
    /\ UNCHANGED <<cpus, mainpc, num_of_cpus, queue, used, sent, fs>>
    /\ UNCHANGED libvars

\* handle_connection, lines 37-39, write_all returning Err: expect panics.
WriteFail(t) ==
    /\ threads[t] = "busy"
    /\ conn[job[t]].st = "resolved"
    /\ PanicIn(t, "write")
    /\ UNCHANGED <<cpus, mainpc, num_of_cpus, queue, used, sent, fs>>
    /\ UNCHANGED libvars

Init ==
    /\ cpus \in 1..MaxCpus
    /\ fs \in ServerRoots
    /\ SrvInit
    /\ buffer = <<>>
    /\ pc = "off"
    /\ parsed = [NoneRequest EXCEPT !.tag = "notrun"]
    /\ page = NotRun

Next ==
    \/ Startup
    \/ \E c \in ConnIds : Accept(c)
    \/ \E t \in ThreadIds : Take(t)
    \/ \E t \in ThreadIds, b \in ClientRequests : ReadOk(t, b)
    \/ \E t \in ThreadIds : ReadFail(t)
    \/ \E t \in ThreadIds : Resolve(t)
    \/ \E t \in ThreadIds : WriteOk(t)
    \/ \E t \in ThreadIds : WriteFail(t)

Spec == Init /\ [][Next]_vars

-----------------------------------------------------------------------------
(* Properties of the server, checked under Spec.                            *)

\* C6: a failed socket read or write touches its connection only: the
\* thread that handled it is still alive, the process is still accepting,
\* and the pool still has num_of_cpus threads.
C6_IoFailureSparesWorker ==
    \A c \in ConnIds :
        conn[c].why \in {"read", "write"}
            => /\ threads[conn[c].by] # "dead"
               /\ mainpc = "accepting"
               /\ Cardinality(Alive) = num_of_cpus

\* C7: an accepted connection waits in the queue until a thread takes it, is
\* taken by one thread only, and is not given up by that thread before the
\* response is written (an aborted connection is never handled again, so it
\* is never handled to completion).
C7_AcceptedIsHandledToCompletion ==
    \A c \in ConnIds :
        /\ conn[c].takes <= 1
        /\ conn[c].st = "queued" <=> (\E i \in 1..Len(queue) : queue[i] = c)
        /\ conn[c].st # "aborted"

\* C10: once main has computed the pool size it is at least 1 and the pool
\* exists, whatever the number of CPUs (at least 1).
C10_AtLeastOneWorker ==
    mainpc # "start" => (num_of_cpus >= 1 /\ mainpc = "accepting")

-----------------------------------------------------------------------------
(* SeqSpec: the server under the client of it_works_in_parallel, which      *)
(* sends its requests one after the other, each after the answer to the     *)
(* one before.                                                              *)

Requests == 100

SeqInit ==
    /\ cpus \in {c \in 1..MaxCpus : WorkerCount(c) >= 3}
    /\ fs = FsWith(TRUE, "text", TRUE)
    /\ SrvInit
    /\ buffer = <<>>
    /\ pc = "off"
    /\ parsed = [NoneRequest EXCEPT !.tag = "notrun"]
    /\ page = NotRun

\* reqwest::blocking::get: the client connects once the answer to its last
\* request is in, and the accept loop queues the new connection.
ClientGet ==
    /\ mainpc = "accepting"
    /\ sent < Requests
    /\ conn[1].st \in {"closed", "written"}
    /\ sent' = sent + 1
    /\ conn' = [conn EXCEPT ![1] = [NewConn EXCEPT !.st = "queued"]]
    /\ queue' = Append(queue, 1)
    /\ UNCHANGED <<cpus, mainpc, num_of_cpus, threads, job, used, fs>>
    /\ UNCHANGED libvars

SeqNext ==
    \/ Startup
    \/ ClientGet
    \/ \E t \in ThreadIds : Take(t)
    \/ \E t \in ThreadIds : ReadOk(t, GetRoot)
    \/ \E t \in ThreadIds : Resolve(t)
    \/ \E t \in ThreadIds : WriteOk(t)

SeqSpec == SeqInit /\ [][SeqNext]_vars

\* C8: with a pool of at least 3 threads, once the 100 sequential requests
\* are answered at least 3 distinct threads have each run a job.
C8_ThreeWorkersSeen ==
    (sent = Requests /\ conn[1].st = "written" /\ num_of_cpus >= 3)
        => Cardinality(used) >= 3

=============================================================================
